---- MODULE Spec2Model ----
(***************************************************************************)
(* frontend/src/environments/environment.ts                                *)
(*                                                                         *)
(* The module exports one constant, `environment`, initialised from an     *)
(* object literal.  The model follows the evaluation of that literal       *)
(* property by property (outer object, nested auth0 object, binding of    *)
(* the export) and then the importers that get the binding and read its    *)
(* properties.  JavaScript values are tagged records, strings are          *)
(* sequences of one-character strings so that their content can be         *)
(* inspected.                                                              *)
(***************************************************************************)
EXTENDS Integers, Sequences, FiniteSets, TLC

\* Number of modules of the application that import `environment`.
NumImporters == 3

Importers == 1..NumImporters

---------------------------------------------------------------------------
\* JavaScript values

Undefined == [t |-> "undefined"]

\* The export binding before the module body has run.
Uninitialized == [t |-> "uninitialized"]

Bool(b) == [t |-> "boolean", b |-> b]

Str(s) == [t |-> "string", s |-> s]

Obj(props) == [t |-> "object", props |-> props]

EmptyProps == [k \in {} |-> Undefined]

TypeOf(v) == v.t

\* Property access v.k: a missing property reads as undefined.
GetProp(v, k) ==
    IF TypeOf(v) = "object" /\ k \in DOMAIN v.props THEN v.props[k] ELSE Undefined

\* Chained property access v.k1.k2...
RECURSIVE Get(_, _)
Get(v, path) ==
    IF path = <<>> THEN v ELSE Get(GetProp(v, Head(path)), Tail(path))

---------------------------------------------------------------------------
\* The source text: initialisers of the object literal

\* A boolean or string literal initialiser.
Lit(v) == [kind |-> "lit", value |-> v]

\* A nested object literal initialiser.
ObjLit(properties) == [kind |-> "obj", properties |-> properties]

Prop(key, init) == [key |-> key, init |-> init]

ApiServerUrlText ==
    <<"h", "t", "t", "p", ":", "/", "/", "1", "2", "7", ".", "0", ".", "0",
      ".", "1", ":", "5", "0", "0", "0">>

Auth0UrlText ==
    <<"u", "d", "a", "c", "i", "t", "y", "2", "0", "2", "0", ".", "e", "u">>

AudienceText ==
    <<"c", "o", "f", "f", "e", "e", "_", "s", "h", "o", "p", "_", "a", "p", "i">>

ClientIdText ==
    <<"X", "z", "f", "Z", "o", "H", "M", "G", "L", "B", "s", "S", "6", "Y",
      "o", "H", "Q", "q", "9", "M", "J", "Y", "u", "5", "6", "Q", "w", "h",
      "A", "4", "9", "o">>

CallbackURLText ==
    <<"h", "t", "t", "p", ":", "/", "/", "1", "2", "7", ".", "0", ".", "0",
      ".", "1", ":", "8", "1", "0", "0", "/", "c", "a", "l", "l", "b", "a",
      "c", "k">>

\* The shape of the literal: two properties and the nested auth0 literal.
EnvironmentShape(production, apiServerUrl, url, audience, clientId, callbackURL) ==
    ObjLit(<<
        Prop("production", production),
        Prop("apiServerUrl", apiServerUrl),
        Prop("auth0", ObjLit(<<
            Prop("url", url),
            Prop("audience", audience),
            Prop("clientId", clientId),
            Prop("callbackURL", callbackURL) >>)) >>)

\* An identifier reference; the source has none.
Ref(name) == [kind |-> "ref", name |-> name]

\* Variants of the literal with one initialiser changed: the production
\* flag set, an empty client id, the audience a copy of the domain, the
\* callback on the API server's port, the callback taken from an
\* identifier that is not in scope.
LiteralProductionTrue ==
    EnvironmentShape(Lit(Bool(TRUE)), Lit(Str(ApiServerUrlText)),
        Lit(Str(Auth0UrlText)), Lit(Str(AudienceText)),
        Lit(Str(ClientIdText)), Lit(Str(CallbackURLText)))

LiteralEmptyClientId ==
    EnvironmentShape(Lit(Bool(FALSE)), Lit(Str(ApiServerUrlText)),
        Lit(Str(Auth0UrlText)), Lit(Str(AudienceText)),
        Lit(Str(<<>>)), Lit(Str(CallbackURLText)))

LiteralAudienceIsUrl ==
    EnvironmentShape(Lit(Bool(FALSE)), Lit(Str(ApiServerUrlText)),
        Lit(Str(Auth0UrlText)), Lit(Str(Auth0UrlText)),
        Lit(Str(ClientIdText)), Lit(Str(CallbackURLText)))

LiteralCallbackOnApiPort ==
    EnvironmentShape(Lit(Bool(FALSE)), Lit(Str(ApiServerUrlText)),
        Lit(Str(Auth0UrlText)), Lit(Str(AudienceText)),
        Lit(Str(ClientIdText)),
        Lit(Str(<<"h", "t", "t", "p", ":", "/", "/", "1", "2", "7", ".", "0",
                  ".", "0", ".", "1", ":", "5", "0", "0", "0", "/", "c", "a",
                  "l", "l", "b", "a", "c", "k">>)))

LiteralCallbackFromWindow ==
    EnvironmentShape(Lit(Bool(FALSE)), Lit(Str(ApiServerUrlText)),
        Lit(Str(Auth0UrlText)), Lit(Str(AudienceText)),
        Lit(Str(ClientIdText)), Ref("callbackURL"))

\* The object literal of `export const environment = {...}`.
EnvironmentLiteral ==
    EnvironmentShape(Lit(Bool(FALSE)), Lit(Str(ApiServerUrlText)),
        Lit(Str(Auth0UrlText)), Lit(Str(AudienceText)),
        Lit(Str(ClientIdText)), Lit(Str(CallbackURLText)))

\* The property paths an importer can read: the six settings and the
\* auth0 object itself.
ReadPaths ==
    { <<"production">>, <<"apiServerUrl">>, <<"auth0">>,
      <<"auth0", "url">>, <<"auth0", "audience">>,
      <<"auth0", "clientId">>, <<"auth0", "callbackURL">> }

---------------------------------------------------------------------------
VARIABLES
    status,       \* "unloaded" | "evaluating" | "loaded" | "error"
    stack,        \* object literals under construction, innermost last
    environment,  \* the exported binding
    imported,     \* the importers holding the binding
    seen          \* per importer, the last property read and its value

vars == <<status, stack, environment, imported, seen>>

NoRead == [path |-> <<>>, value |-> Undefined]

\* A frame: the properties defined so far, the property definitions still
\* to evaluate, and the key the finished object is stored under.
Frame(key, properties) == [key |-> key, props |-> EmptyProps, rest |-> properties]

Top == stack[Len(stack)]

ReplaceTop(f) == [stack EXCEPT ![Len(stack)] = f]

\* obj[k] = v; a repeated key overwrites.
Define(props, k, v) == (k :> v) @@ props

Init ==
    /\ status = "unloaded"
    /\ stack = <<>>
    /\ environment = Uninitialized
    /\ imported = {}
    /\ seen = [i \in Importers |-> NoRead]

\* The module body starts: the outer object literal is created.
BeginModule ==
    /\ status = "unloaded"
    /\ status' = "evaluating"
    /\ stack' = <<Frame("environment", EnvironmentLiteral.properties)>>
    /\ UNCHANGED <<environment, imported, seen>>

\* The next property has a non-object initialiser: a literal is evaluated
\* and defined on the object; anything else throws and the module fails.
DefineLiteral ==
    /\ status = "evaluating"
    /\ Top.rest # <<>>
    /\ Head(Top.rest).init.kind # "obj"
    /\ LET p == Head(Top.rest) IN
        IF p.init.kind = "lit"
        THEN /\ stack' = ReplaceTop([Top EXCEPT
                    !.props = Define(Top.props, p.key, p.init.value),
                    !.rest = Tail(Top.rest)])
             /\ status' = status
        ELSE /\ stack' = <<>>
             /\ status' = "error"
    /\ UNCHANGED <<environment, imported, seen>>

\* The next property is initialised by a nested object literal.
EnterObject ==
    /\ status = "evaluating"
    /\ Top.rest # <<>>
    /\ Head(Top.rest).init.kind = "obj"
    /\ LET p == Head(Top.rest) IN
        stack' = Append(ReplaceTop([Top EXCEPT !.rest = Tail(Top.rest)]),
                        Frame(p.key, p.init.properties))
    /\ UNCHANGED <<status, environment, imported, seen>>

\* Variant of CompleteObject: the nested literal's properties are spread
\* into the enclosing literal instead of being stored under its key.
CompleteObjectFlat ==
    /\ status = "evaluating"
    /\ Len(stack) > 1
    /\ Top.rest = <<>>
    /\ LET parent == stack[Len(stack) - 1] IN
        stack' = [SubSeq(stack, 1, Len(stack) - 1) EXCEPT
                    ![Len(stack) - 1] =
                        [parent EXCEPT !.props = Top.props @@ parent.props]]
    /\ UNCHANGED <<status, environment, imported, seen>>

\* A nested literal is complete: the object becomes the value of its key
\* in the enclosing literal.
CompleteObject ==
    /\ status = "evaluating"
    /\ Len(stack) > 1
    /\ Top.rest = <<>>
    /\ LET parent == stack[Len(stack) - 1] IN
        stack' = [SubSeq(stack, 1, Len(stack) - 1) EXCEPT
                    ![Len(stack) - 1] =
                        [parent EXCEPT
                            !.props = Define(parent.props, Top.key, Obj(Top.props))]]
    /\ UNCHANGED <<status, environment, imported, seen>>

\* The outer literal is complete: the const binding is initialised.
BindExport ==
    /\ status = "evaluating"
    /\ Len(stack) = 1
    /\ Top.rest = <<>>
    /\ environment' = Obj(Top.props)
    /\ status' = "loaded"
    /\ stack' = <<>>
    /\ UNCHANGED <<imported, seen>>

\* `import { environment } from '.../environments/environment'`.
Import(i) ==
    /\ status = "loaded"
    /\ i \notin imported
    /\ imported' = imported \cup {i}
    /\ UNCHANGED <<status, stack, environment, seen>>

\* An importer reads one setting.
Read(i, path) ==
    /\ i \in imported
    /\ seen' = [seen EXCEPT ![i] = [path |-> path, value |-> Get(environment, path)]]
    /\ UNCHANGED <<status, stack, environment, imported>>

Next ==
    \/ BeginModule
    \/ DefineLiteral
    \/ EnterObject
    \/ CompleteObject
    \/ BindExport
    \/ \E i \in Importers : Import(i)
    \/ \E i \in Importers, path \in ReadPaths : Read(i, path)

Spec == Init /\ [][Next]_vars

---------------------------------------------------------------------------
\* Vocabulary of the properties

Loaded == status = "loaded"

Keys(v) == IF TypeOf(v) = "object" THEN DOMAIN v.props ELSE {}

IsScalar(v) == TypeOf(v) \in {"boolean", "string"}

IsNonEmptyString(v) == TypeOf(v) = "string" /\ Len(v.s) > 0

\* The paths from v down to its scalar values.
RECURSIVE LeafPaths(_)
LeafPaths(v) ==
    IF TypeOf(v) = "object"
    THEN UNION { { <<k>> \o p : p \in LeafPaths(v.props[k]) } : k \in DOMAIN v.props }
    ELSE IF IsScalar(v) THEN { <<>> } ELSE {}

HasRead(i, path) == i \in imported /\ seen[i].path = path

\* URL syntax: scheme "://" host ":" port path
ApiPort == 5000

CallbackPort == 8100

HttpText == <<"h", "t", "t", "p">>

LoopbackText == <<"1", "2", "7", ".", "0", ".", "0", ".", "1">>

CallbackPathText == <<"/", "c", "a", "l", "l", "b", "a", "c", "k">>

DigitChars == <<"0", "1", "2", "3", "4", "5", "6", "7", "8", "9">>

\* Least index i >= from with s[i] = c, or Len(s) + 1 when there is none.
IndexFrom(s, c, from) ==
    LET hits == { i \in from..Len(s) : s[i] = c } IN
    IF hits = {} THEN Len(s) + 1
    ELSE CHOOSE i \in hits : \A j \in hits : i <= j

\* Index of the ":" of the first "://", or Len(s) + 1.
SchemeEnd(s) ==
    LET hits == { i \in 1..(Len(s) - 2) :
                    s[i] = ":" /\ s[i + 1] = "/" /\ s[i + 2] = "/" } IN
    IF hits = {} THEN Len(s) + 1
    ELSE CHOOSE i \in hits : \A j \in hits : i <= j

UrlScheme(s) == SubSeq(s, 1, SchemeEnd(s) - 1)

\* First index after the authority (host and port).
AuthorityEnd(s) == IndexFrom(s, "/", SchemeEnd(s) + 3)

UrlAuthority(s) == SubSeq(s, SchemeEnd(s) + 3, AuthorityEnd(s) - 1)

UrlHost(s) ==
    LET a == UrlAuthority(s) IN SubSeq(a, 1, IndexFrom(a, ":", 1) - 1)

RECURSIVE DecimalValue(_)
DecimalValue(d) ==
    IF d = <<>> THEN 0
    ELSE 10 * DecimalValue(SubSeq(d, 1, Len(d) - 1))
         + (CHOOSE n \in 0..9 : DigitChars[n + 1] = d[Len(d)])

\* The port number, or -1 when the authority has no decimal port.
UrlPort(s) ==
    LET a == UrlAuthority(s)
        d == SubSeq(a, IndexFrom(a, ":", 1) + 1, Len(a))
    IN IF d # <<>> /\ \A i \in 1..Len(d) : \E n \in 1..10 : DigitChars[n] = d[i]
       THEN DecimalValue(d) ELSE -1

UrlPath(s) == SubSeq(s, AuthorityEnd(s), Len(s))

---------------------------------------------------------------------------
\* C1: the export is a static declaration.  Until the module body has run
\* the binding is uninitialised; from then on each of the six settings
\* holds the value written in the source, and whatever an importer has read
\* is still what the object holds.
EnvironmentKeepsDeclaredValues ==
    /\ ~Loaded => TypeOf(environment) = "uninitialized"
    /\ Loaded =>
        /\ Get(environment, <<"production">>) = Bool(FALSE)
        /\ Get(environment, <<"apiServerUrl">>) = Str(ApiServerUrlText)
        /\ Get(environment, <<"auth0", "url">>) = Str(Auth0UrlText)
        /\ Get(environment, <<"auth0", "audience">>) = Str(AudienceText)
        /\ Get(environment, <<"auth0", "clientId">>) = Str(ClientIdText)
        /\ Get(environment, <<"auth0", "callbackURL">>) = Str(CallbackURLText)
    /\ \A i \in imported :
        seen[i] # NoRead => seen[i].value = Get(environment, seen[i].path)

\* Every importer holds the binding and has read a different setting.
AllImportersHaveRead ==
    /\ Loaded
    /\ imported = Importers
    /\ HasRead(1, <<"auth0", "audience">>)
    /\ HasRead(2, <<"production">>)
    /\ \A i \in Importers : seen[i] # NoRead

\* C2 as stated: once loaded, every field of the object is a scalar held
\* at the top level, and there are six of them.
EnvironmentIsFlatSixScalars ==
    Loaded =>
        /\ \A k \in Keys(environment) : IsScalar(GetProp(environment, k))
        /\ Cardinality(Keys(environment)) = 6

\* C2 amended: the object has six scalar settings, two at the top level
\* (production, apiServerUrl) and four inside the nested object auth0,
\* which is the third top-level field.
EnvironmentHasSixScalarLeaves ==
    Loaded =>
        /\ Keys(environment) = {"production", "apiServerUrl", "auth0"}
        /\ TypeOf(GetProp(environment, "production")) = "boolean"
        /\ TypeOf(GetProp(environment, "apiServerUrl")) = "string"
        /\ TypeOf(GetProp(environment, "auth0")) = "object"
        /\ Keys(GetProp(environment, "auth0")) =
                {"url", "audience", "clientId", "callbackURL"}
        /\ \A k \in Keys(GetProp(environment, "auth0")) :
                TypeOf(Get(environment, <<"auth0", k>>)) = "string"
        /\ Cardinality(LeafPaths(environment)) = 6

\* An importer has read the auth0 field and got an object, not a scalar.
ImporterReadAuth0Object ==
    \E i \in Importers :
        HasRead(i, <<"auth0">>) /\ TypeOf(seen[i].value) = "object"

\* C3: once loaded, the API base URL, the auth0 domain, audience, client
\* id and callback URL are all present as non-empty strings, and an
\* importer reading one of them gets a non-empty string.
EveryEnumeratedSettingIsNonEmpty ==
    /\ Loaded =>
        \A path \in ReadPaths \ { <<"production">>, <<"auth0">> } :
            IsNonEmptyString(Get(environment, path))
    /\ \A i \in imported :
        seen[i].path \in ReadPaths \ { <<"production">>, <<"auth0">> }
            => IsNonEmptyString(seen[i].value)

\* Three importers have read the client id, the domain and the audience.
ImportersReadAuthSettings ==
    /\ HasRead(1, <<"auth0", "clientId">>)
    /\ HasRead(2, <<"auth0", "url">>)
    /\ HasRead(3, <<"auth0", "audience">>)

\* C4: evaluating the declaration has no error outcome: the error state is
\* never reached, and the binding is never visible half-built (it is
\* initialised exactly when the module is loaded, with nothing left under
\* construction).
LoadingNeverFails ==
    /\ status # "error"
    /\ TypeOf(environment) # "uninitialized" <=> Loaded
    /\ Loaded => stack = <<>>
    /\ imported # {} => Loaded

\* The module has been evaluated to the end and every importer has it.
LoadedAndImportedByAll ==
    Loaded /\ imported = Importers /\ TypeOf(environment) = "object"

\* C5: the production flag is never true: not while the literal is being
\* built, not in the exported object, not in what an importer reads; and
\* in the exported object it is the boolean false.
ProductionIsAlwaysFalse ==
    /\ \A n \in 1..Len(stack) :
        "production" \in DOMAIN stack[n].props
            => stack[n].props["production"] = Bool(FALSE)
    /\ Loaded => Get(environment, <<"production">>) = Bool(FALSE)
    /\ \A i \in imported :
        seen[i].path = <<"production">> => seen[i].value = Bool(FALSE)

\* An importer has read the production flag.
ImporterReadProduction ==
    \E i \in Importers :
        HasRead(i, <<"production">>) /\ TypeOf(seen[i].value) = "boolean"

\* C6: the API server URL and the callback URL are http URLs on the same
\* loopback host 127.0.0.1, the first on port 5000 with no path, the second
\* on port 8100 with path /callback; the two strings differ and the
\* callback's port is not the API server's.
ApiAndCallbackAreDistinctOrigins ==
    Loaded =>
        LET api == Get(environment, <<"apiServerUrl">>)
            cb == Get(environment, <<"auth0", "callbackURL">>)
        IN /\ TypeOf(api) = "string"
           /\ TypeOf(cb) = "string"
           /\ UrlScheme(api.s) = HttpText
           /\ UrlHost(api.s) = LoopbackText
           /\ UrlPort(api.s) = ApiPort
           /\ UrlPath(api.s) = <<>>
           /\ UrlScheme(cb.s) = HttpText
           /\ UrlHost(cb.s) = LoopbackText
           /\ UrlPort(cb.s) = CallbackPort
           /\ UrlPath(cb.s) = CallbackPathText
           /\ api.s # cb.s
           /\ UrlPort(cb.s) # UrlPort(api.s)

\* One importer has read the API server URL and another the callback URL.
ImportersReadBothUrls ==
    \E i, j \in Importers :
        /\ i # j
        /\ HasRead(i, <<"apiServerUrl">>)
        /\ HasRead(j, <<"auth0", "callbackURL">>)

====
